---- MODULE Spec2Model ----
(***************************************************************************)
(* Job lifecycle and streaming-generation core of src/api_server.py:       *)
(* the in-memory job store, the persisted snapshots, the pipeline runs     *)
(* (one cooperative generator per stream request) and the HTTP handlers.   *)
(*                                                                         *)
(* A job record is a Python dict: it is modelled as a function whose       *)
(* DOMAIN is the set of keys present.  Generated text is a sequence of     *)
(* one-character strings, so that str.split / ' '.join are computed.       *)
(* A handler without an await is one atomic action; a pipeline run is      *)
(* split at its suspension points (the yields and asyncio.sleep(0)).       *)
(* get_client() (the API_KEY lookup) is taken to succeed in the stream     *)
(* handler; inside the synthesis call its failure is one of the failing    *)
(* outcomes of that call.                                                  *)
(***************************************************************************)
EXTENDS Integers, Sequences, FiniteSets, TLC

\* ------------------------------------------------------------------ bounds
\* Word cap of a transcript.  The program's value is int(90 * 2.5) = 225
\* (src/api_server.py:66-68); the model runs the same code on a small cap.
MAX_TRANSCRIPT_WORDS == 2

\* Spec, the store and audio stage around one run at a time:
\* jobs ever created (uuid4 ids are drawn fresh, never reused)
MaxJobs == 1
\* stream requests accepted over the life of the process
MaxRuns == 2
\* runs in progress at the same time
MaxActive == 1
\* deltas with text the upstream streaming call delivers in one run
MaxDeltas == 1
\* calls of the speech-synthesis capability per job
MaxTtsCalls == 2
\* successful saves (each reads the clock for saved_at)
MaxSaves == 1

\* SpecRuns, concurrent runs on a job: the same limits
RunsJobs == 1
RunsRuns == 2
RunsActive == 2
RunsDeltas == 2
RunsTtsCalls == 0
RunsSaves == 0

\* SpecCreate, the create requests in all their kinds: the same limits
CreateJobs == 2
CreateRuns == 1
CreateActive == 1
CreateDeltas == 1
CreateTtsCalls == 1
CreateSaves == 0
DiskJobs == 2
DiskRuns == 1
DiskActive == 1
DiskDeltas == 1
DiskTtsCalls == 1
DiskSaves == 1

\* ------------------------------------------------------------ Python values
None == "None"
\* None where the value is otherwise a text
NoneText == <<"None">>


\* dict.get(k, default)
Get(j, k, d) == IF k \in DOMAIN j THEN j[k] ELSE d

\* d[k] = v
Put(j, k, v) == [x \in (DOMAIN j) \cup {k} |-> IF x = k THEN v ELSE j[x]]

\* d.pop(k, None)
Pop(j, k) == [x \in (DOMAIN j) \ {k} |-> j[x]]

\* ------------------------------------------------------------------- text
Space == " "
Newline == "\n"

IsSpace(c) == c \in {Space, Newline}

RECURSIVE Flatten(_)
\* ''.join(parts)
Flatten(parts) ==
    IF parts = <<>> THEN <<>> ELSE Head(parts) \o Flatten(Tail(parts))

RECURSIVE SplitFrom(_, _)
\* str.split() continued: cur is the word being read (<<>> when between words)
SplitFrom(s, cur) ==
    IF s = <<>> THEN (IF cur = <<>> THEN <<>> ELSE <<cur>>)
    ELSE IF IsSpace(Head(s))
         THEN (IF cur = <<>> THEN SplitFrom(Tail(s), <<>>)
                             ELSE <<cur>> \o SplitFrom(Tail(s), <<>>))
         ELSE SplitFrom(Tail(s), Append(cur, Head(s)))

\* str.split(): the maximal runs of non-whitespace characters
Split(s) == SplitFrom(s, <<>>)

RECURSIVE JoinSpace(_)
\* ' '.join(words)
JoinSpace(words) ==
    IF words = <<>> THEN <<>>
    ELSE IF Len(words) = 1 THEN Head(words)
    ELSE Head(words) \o <<Space>> \o JoinSpace(Tail(words))

\* words[:n]
Prefix(seq, n) == SubSeq(seq, 1, IF n < Len(seq) THEN n ELSE Len(seq))

WordCount(s) == Len(Split(s))

\* s.strip()
RECURSIVE LStrip(_)
LStrip(s) == IF s # <<>> /\ IsSpace(Head(s)) THEN LStrip(Tail(s)) ELSE s

RECURSIVE RStrip(_)
RStrip(s) ==
    IF s # <<>> /\ IsSpace(s[Len(s)]) THEN RStrip(SubSeq(s, 1, Len(s) - 1)) ELSE s

Strip(s) == RStrip(LStrip(s))

\* s.replace('\n', ' ')
ReplaceNewline(s) == [i \in 1..Len(s) |-> IF s[i] = Newline THEN Space ELSE s[i]]

\* str.lower() / str.upper() on the atoms the requests are built from
LowerAtom(a) ==
    CASE a = "History" -> "history"
      [] a = "FR" -> "fr"
      [] OTHER -> a

UpperAtom(a) ==
    CASE a = "f" -> "F"
      [] a = "m" -> "M"
      [] OTHER -> a

Lower(s) == [i \in 1..Len(s) |-> LowerAtom(s[i])]
Upper(s) == [i \in 1..Len(s) |-> UpperAtom(s[i])]

RECURSIVE SplitCommaFrom(_, _)
\* str.split(',') continued: cur is the item being read
SplitCommaFrom(s, cur) ==
    IF s = <<>> THEN <<cur>>
    ELSE IF Head(s) = "," THEN <<cur>> \o SplitCommaFrom(Tail(s), <<>>)
         ELSE SplitCommaFrom(Tail(s), Append(cur, Head(s)))

SplitComma(s) == SplitCommaFrom(s, <<>>)

RECURSIVE KeepNonBlank(_)
\* [v.strip().upper() for v in items if v.strip()]
KeepNonBlank(items) ==
    IF items = <<>> THEN <<>>
    ELSE IF Strip(Head(items)) = <<>> THEN KeepNonBlank(Tail(items))
         ELSE <<Upper(Strip(Head(items)))>> \o KeepNonBlank(Tail(items))

\* int(speakers): the literals the requests use; anything else is a ValueError
IsIntLiteral(s) == s \in {"-1", "0", "1", "2", "3"}

IntValue(s) ==
    CASE s = "-1" -> -1
      [] s = "0" -> 0
      [] s = "1" -> 1
      [] s = "2" -> 2
      [] s = "3" -> 3

\* --------------------------------------------------------------- persistence
PERSIST_FIELDS ==
    {"status", "title", "transcript", "speakers", "voices", "use_internet",
     "saved", "category", "saved_at", "theme", "geo_location", "voice_names",
     "language", "truncated"}

\* ------------------------------------------------------------------- voices
\* Two names of each pool stand for the 14 and 15 names of the program.
FEMALE_VOICE_POOL == {"Zephyr", "Kore"}
MALE_VOICE_POOL == {"Puck", "Charon"}

\* the set random.choice draws from in _pick_voice(gender)
_pick_voice(gender) ==
    IF gender = <<"F">> /\ FEMALE_VOICE_POOL # {} THEN FEMALE_VOICE_POOL
    ELSE IF gender = <<"M">> /\ MALE_VOICE_POOL # {} THEN MALE_VOICE_POOL
    ELSE IF FEMALE_VOICE_POOL \cup MALE_VOICE_POOL # {}
         THEN FEMALE_VOICE_POOL \cup MALE_VOICE_POOL
         ELSE {"Zephyr"}

\* gender = voices_list[idx] if idx < len(voices_list) else None; gender or 'M'
GenderAt(voices_list, i) ==
    IF i <= Len(voices_list) /\ voices_list[i] # <<>> THEN voices_list[i] ELSE <<"M">>

\* the voice_names lists start_generation can draw (one draw per speaker)
VoiceDraws(spk_count, voices_list) ==
    IF spk_count <= 0 THEN {<<>>}
    ELSE {vn \in [1..spk_count -> FEMALE_VOICE_POOL \cup MALE_VOICE_POOL \cup {"Zephyr"}] :
            \A i \in 1..spk_count : vn[i] \in _pick_voice(GenderAt(voices_list, i))}

\* ---------------------------------------------------------------- variables
VARIABLES
    jobs,        \* the in-memory store: job id -> record (a dict)
    disk,        \* JOBS_DIR: job id -> persisted snapshot
    runs,        \* the pipeline runs started so far, in order of their request
    next_id,     \* the next fresh job id
    clock,       \* datetime.utcnow() as a tick counter
    tts_calls,   \* job id -> number of calls of the synthesis capability
    tts_voices,  \* job id -> the voice lists passed to the synthesis capability
    served,      \* job id -> the audio payloads get_audio has returned
    drawn,       \* job id -> the voice_names drawn at creation
    env          \* the limits and the create requests of the environment

vars == <<jobs, disk, runs, next_id, clock, tts_calls, tts_voices, served, drawn, env>>

JobIds == 1..env.jobs

Start(e) ==
    /\ jobs = <<>>
    /\ disk = <<>>
    /\ runs = <<>>
    /\ next_id = 1
    /\ clock = 0
    /\ tts_calls = [i \in 1..e.jobs |-> 0]
    /\ tts_voices = [i \in 1..e.jobs |-> <<>>]
    /\ served = [i \in 1..e.jobs |-> {}]
    /\ drawn = <<>>
    /\ env = e

\* ------------------------------------------------------------ create a job
NoFile == [given |-> FALSE, readable |-> FALSE, bytes |-> <<>>, content_type |-> None]
SomeFile == [given |-> TRUE, readable |-> TRUE, bytes |-> <<"b">>, content_type |-> "audio/ogg"]

BaseReq ==
    [prompt_mode |-> "text", text |-> <<"hi">>, use_internet |-> FALSE,
     speakers |-> "1", voices |-> <<>>, category |-> "generated",
     theme |-> <<>>, geo_location |-> <<>>, audio_file |-> NoFile,
     language |-> <<>>]

\* the create requests of the lifecycle specification
TextZero == [BaseReq EXCEPT !.speakers = "0", !.use_internet = TRUE]
TextOne == [BaseReq EXCEPT !.voices = <<Space, "f">>]
AudioOne ==
    [BaseReq EXCEPT !.prompt_mode = "audio", !.text = <<>>, !.audio_file = SomeFile,
                    !.voices = <<"m">>]

\* the create requests of the creation specification
UnreadableFile == [SomeFile EXCEPT !.readable = FALSE]
TextBlank == [BaseReq EXCEPT !.text = <<Space, Newline>>]
LocSeed ==
    [BaseReq EXCEPT !.text = <<Space>>, !.category = "localisation", !.speakers = "2",
                    !.geo_location = <<Space, "Kyoto">>, !.theme = <<"History", Space>>]
LocNoGeo == [LocSeed EXCEPT !.geo_location = <<Space>>]
LocOtherSpelling == [LocSeed EXCEPT !.category = "localization"]
AudioNoFile == [AudioOne EXCEPT !.audio_file = NoFile, !.text = <<"hi">>]
AudioUnreadable == [AudioOne EXCEPT !.audio_file = UnreadableFile]
TextThree == [BaseReq EXCEPT !.speakers = "3", !.voices = <<"f", ",", "m">>]
LocOtherTheme == [LocSeed EXCEPT !.text = <<"hi">>, !.theme = <<"food">>]
TextOtherCategory == [TextOne EXCEPT !.category = "podcast"]
CreateRequests ==
    {TextOne, TextBlank, LocSeed, LocNoGeo, LocOtherSpelling, AudioOne, AudioNoFile,
     AudioUnreadable, TextThree, LocOtherTheme, TextOtherCategory}

\* the seed raw_input of a localisation job without user text
SeedText(norm_theme, geo) == <<"Localisation seed:">> \o norm_theme \o <<"of">> \o geo

allowed_themes == {<<"culture">>, <<"history">>, <<"music">>, <<"sport">>}

\* the checks of the request without the exemption of localisation
InvalidRequestNoSeed(req) ==
    \/ /\ req.prompt_mode = "text"
       /\ Strip(req.text) = <<>>
    \/ /\ req.prompt_mode = "audio"
       /\ ~req.audio_file.given

InvalidRequest(req) ==
    \/ /\ req.prompt_mode = "text"
       /\ Strip(req.text) = <<>>
       /\ (req.category # "localisation" \/ Strip(req.geo_location) = <<>>)
    \/ /\ req.prompt_mode = "audio"
       /\ ~req.audio_file.given

\* NewJob without the single speaker of localisation
NewJobKeepsSpeakers(req) ==
    LET j0 == [status |-> "pending", transcript |-> <<>>, title |-> NoneText,
               use_internet |-> req.use_internet]
        j1 == IF Strip(req.language) # <<>>
              THEN Put(j0, "language", Lower(Strip(req.language))) ELSE j0
        j2 == IF req.prompt_mode = "text"
              THEN Put(j1, "raw_input", IF Strip(req.text) # <<>> THEN req.text ELSE <<>>)
              ELSE LET a == Put(j1, "raw_input", <<"<audio>">>)
                   IN  IF req.audio_file.readable
                       THEN Put(Put(a, "audio_bytes", req.audio_file.bytes),
                                "audio_mime",
                                IF req.audio_file.content_type # None
                                THEN req.audio_file.content_type ELSE "audio/webm")
                       ELSE Put(a, "audio_error", "Failed to read audio")
        category == IF req.category \in {"generated", "localisation"}
                    THEN req.category ELSE "generated"
        j3 == Put(j2, "category", category)
        norm_theme == IF Strip(Lower(req.theme)) \in allowed_themes
                      THEN Strip(Lower(req.theme)) ELSE <<"culture">>
        j4 == IF category = "localisation"
              THEN LET t == Put(Put(j3, "theme", norm_theme),
                                "geo_location", Strip(req.geo_location))
                   IN  IF req.prompt_mode = "text" /\ Strip(req.text) = <<>>
                       THEN Put(t, "raw_input", SeedText(norm_theme, Strip(req.geo_location)))
                       ELSE t
              ELSE j3
        speakers == req.speakers
        spk_count == IF IsIntLiteral(speakers) THEN IntValue(speakers) ELSE 1
        voices_list == KeepNonBlank(SplitComma(req.voices))
    IN  Put(Put(j4, "speakers", spk_count), "voices", voices_list)

\* the record start_generation stores, before the voice names are drawn
NewJob(req) ==
    LET j0 == [status |-> "pending", transcript |-> <<>>, title |-> NoneText,
               use_internet |-> req.use_internet]
        j1 == IF Strip(req.language) # <<>>
              THEN Put(j0, "language", Lower(Strip(req.language))) ELSE j0
        j2 == IF req.prompt_mode = "text"
              THEN Put(j1, "raw_input", IF Strip(req.text) # <<>> THEN req.text ELSE <<>>)
              ELSE LET a == Put(j1, "raw_input", <<"<audio>">>)
                   IN  IF req.audio_file.readable
                       THEN Put(Put(a, "audio_bytes", req.audio_file.bytes),
                                "audio_mime",
                                IF req.audio_file.content_type # None
                                THEN req.audio_file.content_type ELSE "audio/webm")
                       ELSE Put(a, "audio_error", "Failed to read audio")
        category == IF req.category \in {"generated", "localisation"}
                    THEN req.category ELSE "generated"
        j3 == Put(j2, "category", category)
        norm_theme == IF Strip(Lower(req.theme)) \in allowed_themes
                      THEN Strip(Lower(req.theme)) ELSE <<"culture">>
        j4 == IF category = "localisation"
              THEN LET t == Put(Put(j3, "theme", norm_theme),
                                "geo_location", Strip(req.geo_location))
                   IN  IF req.prompt_mode = "text" /\ Strip(req.text) = <<>>
                       THEN Put(t, "raw_input", SeedText(norm_theme, Strip(req.geo_location)))
                       ELSE t
              ELSE j3
        speakers == IF category = "localisation" THEN "1" ELSE req.speakers
        spk_count == IF IsIntLiteral(speakers) THEN IntValue(speakers) ELSE 1
        voices_list == KeepNonBlank(SplitComma(req.voices))
    IN  Put(Put(j4, "speakers", spk_count), "voices", voices_list)

start_generation(req) ==
    IF InvalidRequest(req)
    THEN UNCHANGED vars
    ELSE /\ next_id <= env.jobs
         /\ LET j == NewJob(req)
            IN  \E voice_names \in VoiceDraws(j["speakers"], j["voices"]) :
                  /\ jobs' = Put(jobs, next_id, Put(j, "voice_names", voice_names))
                  /\ drawn' = Put(drawn, next_id, voice_names)
         /\ next_id' = next_id + 1
         /\ UNCHANGED <<disk, runs, clock, tts_calls, tts_voices, served, env>>

\* ------------------------------------------------------- pipeline: helpers
\* jobs[job_id][k] = v
SetField(js, id, k, v) == Put(js, id, Put(js[id], k, v))

\* what the write of lines 43-44 does: the file holds the snapshot; open()
\* raises and the file is as it was; json.dump raises after open() has
\* truncated the file
WriteOutcomes == {"written", "refused", "torn"}

\* the content of a file that json.load cannot parse
Unparsable == [unparsable |-> TRUE]

\* _persist_job writing a snapshot without the category
PersistWithoutCategory(js, d, id, w) ==
    IF id \notin DOMAIN js \/ w = "refused" THEN d
    ELSE IF w = "torn" THEN Put(d, id, Unparsable)
    ELSE LET j == js[id]
             data == [k \in (DOMAIN j) \cap (PERSIST_FIELDS \ {"category"}) |-> j[k]]
         IN  Put(d, id, Put(data, "job_id", id))

\* _persist_job: the snapshot file written for job_id (no file when the id is
\* not in the store); an exception of the write is caught and printed
_persist_job(js, d, id, w) ==
    IF id \notin DOMAIN js \/ w = "refused" THEN d
    ELSE IF w = "torn" THEN Put(d, id, Unparsable)
    ELSE LET j == js[id]
             data == [k \in (DOMAIN j) \cap PERSIST_FIELDS |-> j[k]]
         IN  Put(d, id, Put(data, "job_id", id))

\* what the transcription capability returns: .text, or an exception
TranscriptionOutcomes ==
    { [ok |-> TRUE, text |-> <<Space, "said", Space>>],
      [ok |-> TRUE, text |-> <<Space>>],
      [ok |-> FALSE, text |-> <<>>] }

\* what a non-streaming text-generation call returns for the improved prompt
ImproveOutcomes ==
    { [ok |-> TRUE, text |-> <<"improved">>],
      [ok |-> FALSE, text |-> <<>>] }

\* what the title call returns
TitleOutcomes ==
    { [ok |-> TRUE, text |-> <<"T">>],
      [ok |-> TRUE, text |-> <<Space, "T", Newline, "U", Newline>>],
      [ok |-> FALSE, text |-> <<>>] }

RECURSIVE Words(_)
\* n words, each preceded by whitespace
Words(n) == IF n = 0 THEN <<>> ELSE <<IF n = 1 THEN Newline ELSE Space, "a">> \o Words(n - 1)

\* the deltas with text the upstream stream can deliver: a word (which joins
\* the word before it) and a delta of several words
Deltas(many) == { <<"a">>, Words(many) }

\* the event frames of a run
MetaEvent(improved) == [type |-> "meta", improved_prompt |-> improved]
ChunkEvent(delta, full, truncated) ==
    [type |-> "chunk", delta |-> delta, full |-> full, truncated |-> truncated]
DoneEvent(title, full, truncated) ==
    [type |-> "done", title |-> title, full |-> full, truncated |-> truncated]
ErrorEvent(message) == [type |-> "error", message |-> message]

Emit(run, e) == [run EXCEPT !.events = Append(@, e)]

\* ErrorExit that also clears the transcript
ErrorExitClears(js, d, run, message) ==
    IF run.job \in DOMAIN js
    THEN [jobs |-> SetField(SetField(js, run.job, "transcript", <<>>), run.job, "status", "error"),
          disk |-> d,
          run |-> [Emit(run, ErrorEvent(message)) EXCEPT !.pc = "ended", !.caught = message]]
    ELSE [jobs |-> js, disk |-> d, run |-> [run EXCEPT !.pc = "crashed", !.caught = message]]

\* the except branch of event_generator, entered with the exception whose
\* str() is message (kept in caught): the status write raises KeyError when
\* the record is gone, and the exception leaves the generator
ErrorExit(js, d, run, message) ==
    IF run.job \in DOMAIN js
    THEN [jobs |-> SetField(js, run.job, "status", "error"), disk |-> d,
          run |-> [Emit(run, ErrorEvent(message)) EXCEPT !.pc = "ended", !.caught = message]]
    ELSE [jobs |-> js, disk |-> d, run |-> [run EXCEPT !.pc = "crashed", !.caught = message]]

\* Finish with the generator left in its loop after the done event
FinishKeepsRunning(js, d, run, out, w) ==
    IF run.job \notin DOMAIN js THEN ErrorExit(js, d, run, "KeyError")
    ELSE IF ~out.ok
    THEN ErrorExit(js, d, run, "title failed")
    ELSE LET full_transcript == js[run.job]["transcript"]
             title == ReplaceNewline(Strip(out.text))
             js2 == SetField(SetField(js, run.job, "title", title), run.job, "status", "done")
             e == DoneEvent(title, full_transcript, Get(js2[run.job], "truncated", FALSE))
         IN  [jobs |-> js2, disk |-> _persist_job(js2, d, run.job, w),
              run |-> [Emit(run, e) EXCEPT !.pc = "chunk"]]

\* Finish writing the snapshot before the title and the status are set
FinishPersistsFirst(js, d, run, out, w) ==
    IF run.job \notin DOMAIN js THEN ErrorExit(js, d, run, "KeyError")
    ELSE IF ~out.ok
    THEN ErrorExit(js, d, run, "title failed")
    ELSE LET full_transcript == js[run.job]["transcript"]
             title == ReplaceNewline(Strip(out.text))
             js2 == SetField(SetField(js, run.job, "title", title), run.job, "status", "done")
             e == DoneEvent(title, full_transcript, Get(js2[run.job], "truncated", FALSE))
         IN  [jobs |-> js2, disk |-> _persist_job(js, d, run.job, w),
              run |-> [Emit(run, e) EXCEPT !.pc = "ended"]]

\* Finish when a failure of the snapshot write reaches the handler of line 463
FinishWriteFails(js, d, run, out, w) ==
    IF run.job \notin DOMAIN js THEN ErrorExit(js, d, run, "KeyError")
    ELSE IF ~out.ok
    THEN ErrorExit(js, d, run, "title failed")
    ELSE IF w # "written"
    THEN ErrorExit(js, _persist_job(js, d, run.job, w), run, "write failed")
    ELSE LET full_transcript == js[run.job]["transcript"]
             title == ReplaceNewline(Strip(out.text))
             js2 == SetField(SetField(js, run.job, "title", title), run.job, "status", "done")
             e == DoneEvent(title, full_transcript, Get(js2[run.job], "truncated", FALSE))
         IN  [jobs |-> js2, disk |-> _persist_job(js2, d, run.job, w),
              run |-> [Emit(run, e) EXCEPT !.pc = "ended"]]

\* Finish that does not store the title
FinishWithoutTitle(js, d, run, out, w) ==
    IF run.job \notin DOMAIN js THEN ErrorExit(js, d, run, "KeyError")
    ELSE IF ~out.ok
    THEN ErrorExit(js, d, run, "title failed")
    ELSE LET full_transcript == js[run.job]["transcript"]
             title == ReplaceNewline(Strip(out.text))
             js2 == SetField(js, run.job, "status", "done")
             e == DoneEvent(title, full_transcript, Get(js2[run.job], "truncated", FALSE))
         IN  [jobs |-> js2, disk |-> _persist_job(js2, d, run.job, w),
              run |-> [Emit(run, e) EXCEPT !.pc = "ended"]]

\* lines 440-462: title synthesis and completion
Finish(js, d, run, out, w) ==
    IF run.job \notin DOMAIN js THEN ErrorExit(js, d, run, "KeyError")
    ELSE IF ~out.ok
    THEN ErrorExit(js, d, run, "title failed")
    ELSE LET full_transcript == js[run.job]["transcript"]
             title == ReplaceNewline(Strip(out.text))
             js2 == SetField(SetField(js, run.job, "title", title), run.job, "status", "done")
             e == DoneEvent(title, full_transcript, Get(js2[run.job], "truncated", FALSE))
         IN  [jobs |-> js2, disk |-> _persist_job(js2, d, run.job, w),
              run |-> [Emit(run, e) EXCEPT !.pc = "ended"]]

\* Chunk without the break after the truncating chunk
ChunkNoBreak(js, d, run, text) ==
    LET acc == Append(run.transcript_acc, text)
        joined == Flatten(acc)
        words == Split(joined)
        truncated_flag == Len(words) > MAX_TRANSCRIPT_WORDS
        current == IF truncated_flag
                   THEN JoinSpace(Prefix(words, MAX_TRANSCRIPT_WORDS)) ELSE joined
        run2 == [run EXCEPT !.transcript_acc = IF truncated_flag THEN <<current>> ELSE acc]
    IN  IF run.job \notin DOMAIN js THEN ErrorExit(js, d, run2, "KeyError")
        ELSE LET js2 == IF truncated_flag THEN SetField(js, run.job, "truncated", TRUE) ELSE js
                 js3 == SetField(js2, run.job, "transcript", current)
                 e == ChunkEvent(IF truncated_flag THEN NoneText ELSE text, current, truncated_flag)
             IN  [jobs |-> js3, disk |-> d, run |-> [Emit(run2, e) EXCEPT !.pc = "chunk"]]

\* Chunk storing the joined text instead of the truncated one
ChunkNoTruncate(js, d, run, text) ==
    LET acc == Append(run.transcript_acc, text)
        joined == Flatten(acc)
        words == Split(joined)
        truncated_flag == Len(words) > MAX_TRANSCRIPT_WORDS
        current == joined
        run2 == [run EXCEPT !.transcript_acc = IF truncated_flag THEN <<current>> ELSE acc]
    IN  IF run.job \notin DOMAIN js THEN ErrorExit(js, d, run2, "KeyError")
        ELSE LET js2 == IF truncated_flag THEN SetField(js, run.job, "truncated", TRUE) ELSE js
                 js3 == SetField(js2, run.job, "transcript", current)
                 e == ChunkEvent(IF truncated_flag THEN NoneText ELSE text, current, truncated_flag)
             IN  [jobs |-> js3, disk |-> d,
                  run |-> [Emit(run2, e) EXCEPT !.pc = IF truncated_flag THEN "trunc" ELSE "chunk"]]

\* lines 421-438: one non-empty delta of the stream
Chunk(js, d, run, text) ==
    LET acc == Append(run.transcript_acc, text)
        joined == Flatten(acc)
        words == Split(joined)
        truncated_flag == Len(words) > MAX_TRANSCRIPT_WORDS
        current == IF truncated_flag
                   THEN JoinSpace(Prefix(words, MAX_TRANSCRIPT_WORDS)) ELSE joined
        run2 == [run EXCEPT !.transcript_acc = IF truncated_flag THEN <<current>> ELSE acc]
    IN  IF run.job \notin DOMAIN js THEN ErrorExit(js, d, run2, "KeyError")
        ELSE LET js2 == IF truncated_flag THEN SetField(js, run.job, "truncated", TRUE) ELSE js
                 js3 == SetField(js2, run.job, "transcript", current)
                 e == ChunkEvent(IF truncated_flag THEN NoneText ELSE text, current, truncated_flag)
             IN  [jobs |-> js3, disk |-> d,
                  run |-> [Emit(run2, e) EXCEPT !.pc = IF truncated_flag THEN "trunc" ELSE "chunk"]]

\* ----------------------------------------------------- the stream request
\* the generator of the run still exists
Active(run) == run.pc \in {"start", "meta", "chunk", "trunc"}

NewRun(id, raw_input, use_internet) ==
    [job |-> id, pc |-> "start", raw_input |-> raw_input, use_internet |-> use_internet,
     transcript_acc |-> <<>>, events |-> <<>>, caught |-> None]

\* stream_transcript without the test of the cached transcription
StreamTranscriptAgain(id) ==
    /\ UNCHANGED <<disk, next_id, clock, tts_calls, tts_voices, served, drawn, env>>
    /\ IF id \notin DOMAIN jobs
       THEN UNCHANGED <<jobs, runs>>
       ELSE IF "raw_input" \notin DOMAIN jobs[id]
       THEN \* jobs[job_id]["raw_input"] raises KeyError: the request fails
            UNCHANGED <<jobs, runs>>
       ELSE /\ Len(runs) < env.runs
            /\ Cardinality({q \in 1..Len(runs) : Active(runs[q])}) < env.active
            /\ LET j == jobs[id]
                   raw_input == j["raw_input"]
               IN  IF /\ raw_input = <<"<audio>">>
                      /\ Get(j, "audio_bytes", <<>>) # <<>>
                   THEN \E out \in TranscriptionOutcomes :
                          LET js1 == SetField(jobs, id, "status", "transcribing")
                              transcript_text == Strip(out.text)
                          IN  IF ~out.ok
                              THEN /\ jobs' = SetField(js1, id, "audio_transcription_error", "error")
                                   /\ runs' = Append(runs, NewRun(id,
                                        <<"(Audio transcription failed; proceed with generic prompt)">>,
                                        j["use_internet"]))
                              ELSE IF transcript_text # <<>>
                              THEN /\ jobs' = SetField(js1, id, "transcribed_audio", transcript_text)
                                   /\ runs' = Append(runs, NewRun(id, transcript_text, j["use_internet"]))
                              ELSE /\ jobs' = js1
                                   /\ runs' = Append(runs, NewRun(id, <<"(Audio transcript empty)">>,
                                                                  j["use_internet"]))
                   ELSE /\ jobs' = jobs
                        /\ runs' = Append(runs, NewRun(id, raw_input, j["use_internet"]))

\* stream_transcript giving up when the transcription fails
StreamTranscriptAborts(id) ==
    /\ UNCHANGED <<disk, next_id, clock, tts_calls, tts_voices, served, drawn, env>>
    /\ IF id \notin DOMAIN jobs
       THEN UNCHANGED <<jobs, runs>>
       ELSE IF "raw_input" \notin DOMAIN jobs[id]
       THEN \* jobs[job_id]["raw_input"] raises KeyError: the request fails
            UNCHANGED <<jobs, runs>>
       ELSE /\ Len(runs) < env.runs
            /\ Cardinality({q \in 1..Len(runs) : Active(runs[q])}) < env.active
            /\ LET j == jobs[id]
                   raw_input == j["raw_input"]
               IN  IF /\ raw_input = <<"<audio>">>
                      /\ Get(j, "audio_bytes", <<>>) # <<>>
                      /\ Get(j, "transcribed_audio", <<>>) = <<>>
                   THEN \E out \in TranscriptionOutcomes :
                          LET js1 == SetField(jobs, id, "status", "transcribing")
                              transcript_text == Strip(out.text)
                          IN  IF ~out.ok
                              THEN /\ jobs' = SetField(js1, id, "status", "error")
                                   /\ runs' = runs
                              ELSE IF transcript_text # <<>>
                              THEN /\ jobs' = SetField(js1, id, "transcribed_audio", transcript_text)
                                   /\ runs' = Append(runs, NewRun(id, transcript_text, j["use_internet"]))
                              ELSE /\ jobs' = js1
                                   /\ runs' = Append(runs, NewRun(id, <<"(Audio transcript empty)">>,
                                                                  j["use_internet"]))
                   ELSE /\ jobs' = jobs
                        /\ runs' = Append(runs, NewRun(id, raw_input, j["use_internet"]))

\* lines 281-313 and 467: the request up to the streaming response
stream_transcript(id) ==
    /\ UNCHANGED <<disk, next_id, clock, tts_calls, tts_voices, served, drawn, env>>
    /\ IF id \notin DOMAIN jobs
       THEN UNCHANGED <<jobs, runs>>
       ELSE IF "raw_input" \notin DOMAIN jobs[id]
       THEN \* jobs[job_id]["raw_input"] raises KeyError: the request fails
            UNCHANGED <<jobs, runs>>
       ELSE /\ Len(runs) < env.runs
            /\ Cardinality({q \in 1..Len(runs) : Active(runs[q])}) < env.active
            /\ LET j == jobs[id]
                   raw_input == j["raw_input"]
               IN  IF /\ raw_input = <<"<audio>">>
                      /\ Get(j, "audio_bytes", <<>>) # <<>>
                      /\ Get(j, "transcribed_audio", <<>>) = <<>>
                   THEN \E out \in TranscriptionOutcomes :
                          LET js1 == SetField(jobs, id, "status", "transcribing")
                              transcript_text == Strip(out.text)
                          IN  IF ~out.ok
                              THEN /\ jobs' = SetField(js1, id, "audio_transcription_error", "error")
                                   /\ runs' = Append(runs, NewRun(id,
                                        <<"(Audio transcription failed; proceed with generic prompt)">>,
                                        j["use_internet"]))
                              ELSE IF transcript_text # <<>>
                              THEN /\ jobs' = SetField(js1, id, "transcribed_audio", transcript_text)
                                   /\ runs' = Append(runs, NewRun(id, transcript_text, j["use_internet"]))
                              ELSE /\ jobs' = js1
                                   /\ runs' = Append(runs, NewRun(id, <<"(Audio transcript empty)">>,
                                                                  j["use_internet"]))
                   ELSE /\ jobs' = jobs
                        /\ runs' = Append(runs, NewRun(id, raw_input, j["use_internet"]))

\* ------------------------------------------------------- steps of one run
Apply(r, res) ==
    /\ jobs' = res.jobs
    /\ disk' = res.disk
    /\ runs' = [runs EXCEPT ![r] = res.run]
    /\ UNCHANGED <<next_id, clock, tts_calls, tts_voices, served, drawn, env>>

\* lines 394-407: from the first resumption to the yield of meta
ImproveStep(r) ==
    /\ runs[r].pc = "start"
    /\ LET run == runs[r]
       IN  IF run.job \notin DOMAIN jobs
           THEN Apply(r, ErrorExit(jobs, disk, run, "KeyError"))
           ELSE \E out \in ImproveOutcomes :
                  LET js1 == SetField(jobs, run.job, "status", "improving")
                      run1 == run
                  IN  IF out.ok
                      THEN Apply(r, [jobs |-> js1, disk |-> disk,
                                     run |-> [Emit(run1, MetaEvent(out.text)) EXCEPT !.pc = "meta"]])
                      ELSE Apply(r, ErrorExit(js1, disk, run1, "improve failed"))

\* what next(stream_iter) does until the generator suspends again: a delta
\* with text arrives, or the stream ends, or the call raises.  A delta
\* without text is skipped by the loop without a yield or a sleep and
\* changes nothing, so it is not a step of its own.
StreamOutcomes(run) ==
    { [kind |-> "delta", text |-> t] : t \in IF Len(run.transcript_acc) < env.deltas THEN env.texts ELSE {} }
    \cup { [kind |-> kk, text |-> <<>>] : kk \in {"end", "fail"} }

\* lines 409-438 (and 440-465 when the stream ends or fails): from the
\* resumption after meta or after a chunk to the next yield
StreamStep(r) ==
    /\ runs[r].pc \in {"meta", "chunk"}
    /\ LET run == runs[r]
       IN  IF run.pc = "meta" /\ run.job \notin DOMAIN jobs
           THEN Apply(r, ErrorExit(jobs, disk, run, "KeyError"))
           ELSE LET js1 == IF run.pc = "meta"
                           THEN SetField(jobs, run.job, "status", "streaming") ELSE jobs
                    run1 == IF run.pc = "meta"
                            THEN [run EXCEPT !.transcript_acc = <<>>]
                            ELSE run
                IN  \E out \in StreamOutcomes(run1) :
                      LET run2 == run1
                      IN  CASE out.kind = "delta" ->
                                 Apply(r, Chunk(js1, disk, run2, out.text))
                            [] out.kind = "end" ->
                                 \E t \in TitleOutcomes : \E w \in env.writes :
                                   Apply(r, Finish(js1, disk, run2, t, w))
                            [] out.kind = "fail" ->
                                 Apply(r, ErrorExit(js1, disk, run2, "stream failed"))

\* lines 436-462: the resumption after the truncating chunk breaks the loop
BreakStep(r) ==
    /\ runs[r].pc = "trunc"
    /\ \E t \in TitleOutcomes : \E w \in env.writes :
         Apply(r, Finish(jobs, disk, runs[r], t, w))

\* Disconnect rolling the partial transcript back
DisconnectRollsBack(r) ==
    /\ runs[r].pc \in {"start", "meta", "chunk", "trunc"}
    /\ runs' = [runs EXCEPT ![r].pc = "closed"]
    /\ jobs' = IF runs[r].job \in DOMAIN jobs
               THEN SetField(jobs, runs[r].job, "transcript", <<>>) ELSE jobs
    /\ UNCHANGED <<disk, next_id, clock, tts_calls, tts_voices, served, drawn, env>>

\* the consumer goes away while the generator is suspended: the generator is
\* closed at its yield (GeneratorExit / CancelledError are not Exceptions)
Disconnect(r) ==
    /\ runs[r].pc \in {"start", "meta", "chunk", "trunc"}
    /\ runs' = [runs EXCEPT ![r].pc = "closed"]
    /\ UNCHANGED <<jobs, disk, next_id, clock, tts_calls, tts_voices, served, drawn, env>>

\* ------------------------------------------------------------ audio stage
\* An audio payload: the container it is in, the sample rate of a WAV
\* container, the samples as delivered by the capability (data) or as rendered
\* by the fallback encoder (tones: one <<frequency, samples>> pair per line
\* and per gap).
Payload(fmt, rate, data, tones) == [fmt |-> fmt, rate |-> rate, data |-> data, tones |-> tones]

\* _wrap_pcm_to_wav: a WAV header in front of the samples
_wrap_pcm_to_wav(pcm_bytes, sample_rate) == Payload("wav", sample_rate, pcm_bytes, <<>>)

container_mimes ==
    {"audio/wav", "audio/x-wav", "audio/mpeg", "audio/mp3", "audio/ogg", "audio/webm"}

\* what the synthesis call returns: an exception (ok = FALSE), a response
\* without inline audio (data = <<>>), raw PCM, or audio in a container
TtsOutcomes ==
    { [ok |-> FALSE, data |-> <<>>, mime |-> None],
      [ok |-> TRUE, data |-> <<>>, mime |-> None],
      [ok |-> TRUE, data |-> <<"pcm">>, mime |-> "audio/L16"],
      [ok |-> TRUE, data |-> <<"mp3">>, mime |-> "audio/mpeg"] }

\* the voices _generate_tts_audio can configure the call with: the
\* preselected names where there are any, a fresh _pick_voice draw otherwise
TtsVoices(speakers, voices, voice_names) ==
    LET n == IF speakers <= 1 THEN 1 ELSE 2
    IN  {vs \in [1..n -> FEMALE_VOICE_POOL \cup MALE_VOICE_POOL \cup {"Zephyr"}] :
            \A i \in 1..n :
                IF i <= Len(voice_names) THEN vs[i] = voice_names[i]
                ELSE vs[i] \in _pick_voice(GenderAt(voices, i))}

\* _generate_tts_audio after the call: the audio and its mime, or a failure
TtsResult(out) ==
    IF ~out.ok \/ out.data = <<>> THEN [ok |-> FALSE, audio |-> Payload("none", 0, <<>>, <<>>), mime |-> None]
    ELSE IF out.mime \in container_mimes
    THEN [ok |-> TRUE, audio |-> Payload("asis", 0, out.data, <<>>), mime |-> out.mime]
    ELSE [ok |-> TRUE, audio |-> _wrap_pcm_to_wav(out.data, 24000), mime |-> "audio/wav"]

RECURSIVE SplitLinesFrom(_, _)
\* str.splitlines() continued: cur is the line being read
SplitLinesFrom(s, cur) ==
    IF s = <<>> THEN (IF cur = <<>> THEN <<>> ELSE <<cur>>)
    ELSE IF Head(s) = Newline THEN <<cur>> \o SplitLinesFrom(Tail(s), <<>>)
         ELSE SplitLinesFrom(Tail(s), Append(cur, Head(s)))

RECURSIVE StripLines(_)
\* [ln.strip() for ln in lines if ln.strip()]
StripLines(lines) ==
    IF lines = <<>> THEN <<>>
    ELSE IF Strip(Head(lines)) = <<>> THEN StripLines(Tail(lines))
         ELSE <<Strip(Head(lines))>> \o StripLines(Tail(lines))

\* len() of a text: one character per atom, except the literals
AtomLen(a) ==
    CASE a = "(no transcript)" -> 15
      [] a = "(empty)" -> 7
      [] OTHER -> 1

RECURSIVE CharLen(_)
CharLen(s) == IF s = <<>> THEN 0 ELSE AtomLen(Head(s)) + CharLen(Tail(s))

\* speaker_freq(0): no line of the modelled texts carries a "Speaker 2:" label
speaker_freq(voices) ==
    LET gender == IF voices # <<>> THEN voices[1] ELSE <<>>
    IN  IF gender = <<"M">> THEN 150 ELSE IF gender = <<"F">> THEN 240 ELSE 200

RECURSIVE Tones(_, _)
\* per line: int(min(4.0, 0.45 + 0.03 * chars) * 16000) samples of tone, then
\* int(0.18 * 16000) samples of silence
Tones(lines, freq) ==
    IF lines = <<>> THEN <<>>
    ELSE LET char_count == IF CharLen(Head(lines)) > 1 THEN CharLen(Head(lines)) ELSE 1
             millis == IF 450 + 30 * char_count < 4000 THEN 450 + 30 * char_count ELSE 4000
         IN  << <<freq, millis * 16>>, <<0, 2880>> >> \o Tones(Tail(lines), freq)

\* _generate_placeholder_audio: the fallback encoder
_generate_placeholder_audio(transcript, voices) ==
    LET lines0 == StripLines(SplitLinesFrom(transcript, <<>>))
        lines == IF lines0 = <<>>
                 THEN << IF Strip(transcript) # <<>> THEN Strip(transcript) ELSE <<"(empty)">> >>
                 ELSE lines0
    IN  Payload("wav", 16000, <<>>, Tones(lines, speaker_freq(voices)))

RECURSIVE Samples(_)
Samples(tones) == IF tones = <<>> THEN 0 ELSE Head(tones)[2] + Samples(Tail(tones))

\* len() of a payload in bytes: a 44-byte header and 16-bit samples in a WAV
ByteLen(a) ==
    IF a.fmt = "wav" THEN 44 + 2 * (Len(a.data) + Samples(a.tones)) ELSE Len(a.data)

\* EnsureAudio without the fallback encoder
EnsureAudioNoFallback(j, out) ==
    LET res == TtsResult(out)
    IN  IF res.ok
        THEN Put(Put(Put(j, "audio_wav", res.audio), "audio_mime", res.mime),
                 "audio_source", "tts")
        ELSE j

\* lines 637-654 and 703-720: make sure the record j carries audio
EnsureAudio(j, out) ==
    LET transcript == IF Get(j, "transcript", <<>>) # <<>> THEN j["transcript"]
                      ELSE <<"(no transcript)">>
        res == TtsResult(out)
    IN  IF res.ok
        THEN Put(Put(Put(j, "audio_wav", res.audio), "audio_mime", res.mime),
                 "audio_source", "tts")
        ELSE Put(Put(Put(j, "audio_wav",
                         _generate_placeholder_audio(transcript, Get(j, "voices", <<>>))),
                     "audio_mime", "audio/wav"),
                 "audio_source", "placeholder_fallback")

\* fp.exists() and json.load succeeds
Readable(d, id) == id \in DOMAIN d /\ d[id] # Unparsable

\* _load_job: the store after the snapshot of id was read back; the store as
\* it was (return False) when there is no file or it cannot be parsed
_load_job(js, d, id) == IF Readable(d, id) THEN Put(js, id, d[id]) ELSE js

\* the synthesis call made for job id with voice list vs
CallTts(id, vs) ==
    /\ tts_calls[id] < env.tts
    /\ tts_calls' = [tts_calls EXCEPT ![id] = @ + 1]
    /\ tts_voices' = [tts_voices EXCEPT ![id] = vs]

\* GetAudio without the check of the status
GetAudioAnyStatus(js, d, id, out, vs) ==
    IF id \notin DOMAIN js /\ ~Readable(d, id)
    THEN [code |-> 404, jobs |-> js, called |-> FALSE, fallback |-> FALSE]
    ELSE LET js1 == IF id \in DOMAIN js THEN js ELSE _load_job(js, d, id)
             j == js1[id]
             j2 == IF "audio_wav" \in DOMAIN j THEN j ELSE EnsureAudio(j, out)
         IN  [code |-> 200, jobs |-> Put(js1, id, j2),
              called |-> "audio_wav" \notin DOMAIN j,
              fallback |-> "audio_wav" \notin DOMAIN j /\ ~TtsResult(out).ok,
              content |-> j2["audio_wav"],
              media_type |-> Get(j2, "audio_mime", "audio/wav")]

\* get_audio as a function of the store, the snapshots and what the
\* capability does if it is called (out, with the voices vs): the response
\* (code, content, media_type), the store afterwards, and whether the
\* capability and the fallback encoder were invoked
GetAudio(js, d, id, out, vs) ==
    IF id \notin DOMAIN js /\ ~Readable(d, id)
    THEN [code |-> 404, jobs |-> js, called |-> FALSE, fallback |-> FALSE]
    ELSE LET js1 == IF id \in DOMAIN js THEN js ELSE _load_job(js, d, id)
             j == js1[id]
         IN  IF Get(j, "status", None) # "done"
             THEN [code |-> 400, jobs |-> js1, called |-> FALSE, fallback |-> FALSE]
             ELSE LET j2 == IF "audio_wav" \in DOMAIN j THEN j ELSE EnsureAudio(j, out)
                  IN  IF "audio_wav" \notin DOMAIN j2
                      THEN [code |-> 500, jobs |-> Put(js1, id, j2),
                            called |-> TRUE, fallback |-> TRUE]
                      ELSE [code |-> 200, jobs |-> Put(js1, id, j2),
                            called |-> "audio_wav" \notin DOMAIN j,
                            fallback |-> "audio_wav" \notin DOMAIN j /\ ~TtsResult(out).ok,
                            content |-> j2["audio_wav"],
                            media_type |-> Get(j2, "audio_mime", "audio/wav")]

\* the voice lists get_audio or save_job can pass for the record j
VoicesFor(j) ==
    TtsVoices(Get(j, "speakers", 1), Get(j, "voices", <<>>), Get(j, "voice_names", <<>>))

\* the record get_audio and save_job work on: a lazy load in get_audio only
Loaded(js, d, id) == IF id \in DOMAIN js THEN js[id] ELSE d[id]

get_audio(id) ==
    /\ UNCHANGED <<disk, runs, next_id, clock, drawn, env>>
    /\ IF id \notin DOMAIN jobs /\ ~Readable(disk, id)
       THEN UNCHANGED <<jobs, tts_calls, tts_voices, served>>
       ELSE \E out \in TtsOutcomes : \E vs \in VoicesFor(Loaded(jobs, disk, id)) :
              LET r == GetAudio(jobs, disk, id, out, vs)
              IN  /\ jobs' = r.jobs
                  /\ IF r.called THEN CallTts(id, vs) ELSE UNCHANGED <<tts_calls, tts_voices>>
                  /\ served' = IF r.code = 200 /\ served[id] = {}
                               THEN [served EXCEPT ![id] = {r.content}] ELSE served

\* -------------------------------------------------------------- the reads
StatusBody(j) ==
    [status |-> j["status"], title |-> Get(j, "title", NoneText),
     length |-> Len(Get(j, "transcript", <<>>)),
     speakers |-> Get(j, "speakers", 0), voices |-> Get(j, "voices", <<>>)]

FullBody(j) ==
    [status |-> Get(j, "status", None), title |-> Get(j, "title", NoneText),
     transcript |-> Get(j, "transcript", NoneText),
     speakers |-> Get(j, "speakers", 0), voices |-> Get(j, "voices", <<>>),
     saved |-> Get(j, "saved", FALSE), category |-> Get(j, "category", None),
     voice_names |-> Get(j, "voice_names", <<>>),
     theme |-> Get(j, "theme", NoneText), geo_location |-> Get(j, "geo_location", NoneText),
     language |-> Get(j, "language", NoneText)]

SummaryBody(j) ==
    [status |-> Get(j, "status", None), title |-> Get(j, "title", NoneText),
     length |-> Len(Get(j, "transcript", <<>>)),
     speakers |-> Get(j, "speakers", 0), voices |-> Get(j, "voices", <<>>),
     saved |-> Get(j, "saved", FALSE), category |-> Get(j, "category", None),
     voice_names |-> Get(j, "voice_names", <<>>),
     theme |-> Get(j, "theme", NoneText), geo_location |-> Get(j, "geo_location", NoneText),
     language |-> Get(j, "language", NoneText)]

\* get_status as a function of the store: the response; nothing is loaded
GetStatus(js, d, id) ==
    IF id \notin DOMAIN js THEN [code |-> 404, jobs |-> js]
    ELSE [code |-> 200, jobs |-> js, body |-> StatusBody(js[id])]

\* get_full as a function of the store and the snapshots: the response and
\* the store afterwards
GetFull(js, d, id) ==
    IF id \notin DOMAIN js /\ ~Readable(d, id) THEN [code |-> 404, jobs |-> js]
    ELSE LET js1 == IF id \in DOMAIN js THEN js ELSE _load_job(js, d, id)
         IN  [code |-> 200, jobs |-> js1, body |-> FullBody(js1[id])]

\* answers 404, or StatusBody(jobs[id]); the store is only read
get_status(id) ==
    /\ jobs' = GetStatus(jobs, disk, id).jobs
    /\ UNCHANGED <<disk, runs, next_id, clock, tts_calls, tts_voices, served, drawn, env>>

get_full(id) ==
    /\ UNCHANGED <<disk, runs, next_id, clock, tts_calls, tts_voices, served, drawn, env>>
    /\ jobs' = GetFull(jobs, disk, id).jobs

\* answers SummaryBody(jobs[id]) for every id of the store; the store is only read
list_status ==
    UNCHANGED <<jobs, disk, runs, next_id, clock, tts_calls, tts_voices, served, drawn, env>>

\* one item of list_saved
SavedItem(id, j) ==
    [job_id |-> id,
     title |-> IF Get(j, "title", NoneText) \in {NoneText, <<>>}
               THEN <<"Untitled">> ELSE j["title"],
     category |-> Get(j, "category", None), saved_at |-> Get(j, "saved_at", 0),
     speakers |-> Get(j, "speakers", 0), voices |-> Get(j, "voices", <<>>)]

\* the ids list_saved keeps: saved records of the store, of the category when
\* one is given
Listed(js, category) ==
    {id \in DOMAIN js :
        /\ Get(js[id], "saved", FALSE)
        /\ category \in {None, ""} \/ Get(js[id], "category", None) = category}

\* result.sort(key=saved_at, reverse=True): the latest first, equal keys in
\* the order of the store
RECURSIVE SortSaved(_, _)
SortSaved(js, ids) ==
    IF ids = {} THEN <<>>
    ELSE LET top == CHOOSE id \in ids :
                       \A x \in ids : \/ Get(js[x], "saved_at", 0) < Get(js[id], "saved_at", 0)
                                       \/ /\ Get(js[x], "saved_at", 0) = Get(js[id], "saved_at", 0)
                                          /\ x >= id
         IN  <<SavedItem(top, js[top])>> \o SortSaved(js, ids \ {top})

\* list_saved as a function of the store: the items of the response
ListSaved(js, category) == SortSaved(js, Listed(js, category))

\* answers ListSaved(jobs, category); the store is only read
list_saved(category) ==
    UNCHANGED <<jobs, disk, runs, next_id, clock, tts_calls, tts_voices, served, drawn, env>>

\* ------------------------------------------------- delete, save and unsave
\* del jobs[job_id]
Del(js, id) == [x \in (DOMAIN js) \ {id} |-> js[x]]

delete_job(id) ==
    /\ UNCHANGED <<disk, runs, next_id, clock, tts_calls, tts_voices, served, drawn, env>>
    /\ IF id \notin DOMAIN jobs
       THEN UNCHANGED jobs
       ELSE jobs' = Del(jobs, id)

SaveCategories == {"localization", "podcast"}

\* SaveJob without the check of the status
SaveJobAnyStatus(js, d, id, category, out, now, w) ==
    IF id \notin DOMAIN js
    THEN [code |-> 404, jobs |-> js, disk |-> d, called |-> FALSE]
    ELSE IF category \notin {"generated", "localisation", "localization"}
    THEN [code |-> 400, jobs |-> js, disk |-> d, called |-> FALSE]
    ELSE LET cat == IF category = "localization" THEN "localisation" ELSE category
             j == Put(Put(Put(js[id], "saved", TRUE), "category", cat), "saved_at", now)
             j2 == IF "audio_wav" \in DOMAIN j THEN j ELSE EnsureAudio(j, out)
             js2 == Put(js, id, j2)
         IN  [code |-> 200, jobs |-> js2, disk |-> _persist_job(js2, d, id, w),
              called |-> "audio_wav" \notin DOMAIN j, category |-> cat]

\* SaveJob without the synthesis of the audio
SaveJobNoAudio(js, d, id, category, out, now, w) ==
    IF id \notin DOMAIN js
    THEN [code |-> 404, jobs |-> js, disk |-> d, called |-> FALSE]
    ELSE IF Get(js[id], "status", None) # "done"
    THEN [code |-> 400, jobs |-> js, disk |-> d, called |-> FALSE]
    ELSE IF category \notin {"generated", "localisation", "localization"}
    THEN [code |-> 400, jobs |-> js, disk |-> d, called |-> FALSE]
    ELSE LET cat == IF category = "localization" THEN "localisation" ELSE category
             j == Put(Put(Put(js[id], "saved", TRUE), "category", cat), "saved_at", now)
             js2 == Put(js, id, j)
         IN  [code |-> 200, jobs |-> js2, disk |-> _persist_job(js2, d, id, w),
              called |-> FALSE, category |-> cat]

\* SaveJob that also marks the status of the job
SaveJobMarksStatus(js, d, id, category, out, now, w) ==
    IF id \notin DOMAIN js
    THEN [code |-> 404, jobs |-> js, disk |-> d, called |-> FALSE]
    ELSE IF Get(js[id], "status", None) # "done"
    THEN [code |-> 400, jobs |-> js, disk |-> d, called |-> FALSE]
    ELSE IF category \notin {"generated", "localisation", "localization"}
    THEN [code |-> 400, jobs |-> js, disk |-> d, called |-> FALSE]
    ELSE LET cat == IF category = "localization" THEN "localisation" ELSE category
             j == Put(Put(Put(Put(js[id], "saved", TRUE), "category", cat), "saved_at", now),
                      "status", "saved")
             j2 == IF "audio_wav" \in DOMAIN j THEN j ELSE EnsureAudio(j, out)
             js2 == Put(js, id, j2)
         IN  [code |-> 200, jobs |-> js2, disk |-> _persist_job(js2, d, id, w),
              called |-> "audio_wav" \notin DOMAIN j, category |-> cat]

\* save_job as a function of the store, the snapshots, the clock reading and
\* what the capability does if it is called: the response, the store and the
\* snapshots afterwards, and whether the capability was invoked
SaveJob(js, d, id, category, out, now, w) ==
    IF id \notin DOMAIN js
    THEN [code |-> 404, jobs |-> js, disk |-> d, called |-> FALSE]
    ELSE IF Get(js[id], "status", None) # "done"
    THEN [code |-> 400, jobs |-> js, disk |-> d, called |-> FALSE]
    ELSE IF category \notin {"generated", "localisation", "localization"}
    THEN [code |-> 400, jobs |-> js, disk |-> d, called |-> FALSE]
    ELSE LET cat == IF category = "localization" THEN "localisation" ELSE category
             j == Put(Put(Put(js[id], "saved", TRUE), "category", cat), "saved_at", now)
             j2 == IF "audio_wav" \in DOMAIN j THEN j ELSE EnsureAudio(j, out)
             js2 == Put(js, id, j2)
         IN  [code |-> 200, jobs |-> js2, disk |-> _persist_job(js2, d, id, w),
              called |-> "audio_wav" \notin DOMAIN j, category |-> cat]

save_job(id, category) ==
    /\ UNCHANGED <<runs, next_id, served, drawn, env>>
    /\ \E out \in TtsOutcomes : \E w \in env.writes :
         LET r == SaveJob(jobs, disk, id, category, out, clock + 1, w)
         IN  IF r.code # 200
             THEN UNCHANGED <<jobs, disk, clock, tts_calls, tts_voices>>
             ELSE /\ clock < env.saves
                  /\ clock' = clock + 1
                  /\ jobs' = r.jobs
                  /\ disk' = r.disk
                  /\ IF r.called
                     THEN \E vs \in VoicesFor(jobs[id]) : CallTts(id, vs)
                     ELSE UNCHANGED <<tts_calls, tts_voices>>

\* UnsaveJob leaving the snapshot file in place
UnsaveKeepsSnapshot(js, d, id) ==
    IF id \notin DOMAIN js THEN [code |-> 404, jobs |-> js, disk |-> d]
    ELSE IF ~Get(js[id], "saved", FALSE) THEN [code |-> 400, jobs |-> js, disk |-> d]
    ELSE [code |-> 200,
          jobs |-> Put(js, id, Pop(Pop(Put(js[id], "saved", FALSE), "category"), "saved_at")),
          disk |-> d]

\* unsave_job as a function of the store and the snapshots: the response,
\* the store and the snapshots afterwards
UnsaveJob(js, d, id) ==
    IF id \notin DOMAIN js THEN [code |-> 404, jobs |-> js, disk |-> d]
    ELSE IF ~Get(js[id], "saved", FALSE) THEN [code |-> 400, jobs |-> js, disk |-> d]
    ELSE [code |-> 200,
          jobs |-> Put(js, id, Pop(Pop(Put(js[id], "saved", FALSE), "category"), "saved_at")),
          disk |-> [x \in (DOMAIN d) \ {id} |-> d[x]]]

unsave_job(id) ==
    /\ UNCHANGED <<runs, next_id, clock, tts_calls, tts_voices, served, drawn, env>>
    /\ jobs' = UnsaveJob(jobs, disk, id).jobs
    /\ disk' = UnsaveJob(jobs, disk, id).disk

Next ==
    \/ \E req \in env.requests : start_generation(req)
    \/ \E id \in JobIds : stream_transcript(id)
    \/ \E r \in 1..Len(runs) : ImproveStep(r)
    \/ \E r \in 1..Len(runs) : StreamStep(r)
    \/ \E r \in 1..Len(runs) : BreakStep(r)
    \/ \E r \in 1..Len(runs) : Disconnect(r)
    \/ \E id \in JobIds : get_status(id)
    \/ \E id \in JobIds : get_full(id)
    \/ list_status
    \/ \E id \in JobIds : get_audio(id)
    \/ \E id \in JobIds : delete_job(id)
    \/ \E id \in JobIds, category \in SaveCategories : save_job(id, category)
    \/ \E id \in JobIds : unsave_job(id)
    \/ \E category \in {None, "generated", "localisation"} : list_saved(category)

Init ==
    Start([jobs |-> MaxJobs, runs |-> MaxRuns, active |-> MaxActive, deltas |-> MaxDeltas,
           tts |-> MaxTtsCalls, saves |-> MaxSaves,
           texts |-> Deltas(MAX_TRANSCRIPT_WORDS + 1), requests |-> {TextZero, TextOne}, writes |-> {"written"}])

Spec == Init /\ [][Next]_vars

InitRuns ==
    Start([jobs |-> RunsJobs, runs |-> RunsRuns, active |-> RunsActive, deltas |-> RunsDeltas,
           tts |-> RunsTtsCalls, saves |-> RunsSaves,
           texts |-> Deltas(MAX_TRANSCRIPT_WORDS), requests |-> {AudioOne}, writes |-> {"written"}])

SpecRuns == InitRuns /\ [][Next]_vars

InitCreate ==
    Start([jobs |-> CreateJobs, runs |-> CreateRuns, active |-> CreateActive,
           deltas |-> CreateDeltas, tts |-> CreateTtsCalls, saves |-> CreateSaves,
           texts |-> {Words(MAX_TRANSCRIPT_WORDS + 1)}, requests |-> CreateRequests, writes |-> {"written"}])

SpecCreate == InitCreate /\ [][Next]_vars

InitDisk ==
    Start([jobs |-> DiskJobs, runs |-> DiskRuns, active |-> DiskActive,
           deltas |-> DiskDeltas, tts |-> DiskTtsCalls, saves |-> DiskSaves,
           texts |-> {Words(MAX_TRANSCRIPT_WORDS + 1)}, requests |-> {TextOne},
           writes |-> WriteOutcomes])

SpecDisk == InitDisk /\ [][Next]_vars

\* ===================================================================== claims
Terminal(e) == e.type \in {"done", "error"}

\* the stream of the run has ended on the consumer's side without a disconnect
ReadToEnd(run) == run.pc \in {"ended", "crashed"}

Rank(status) ==
    CASE status = "pending" -> 0
      [] status = "transcribing" -> 1
      [] status = "improving" -> 2
      [] status = "streaming" -> 3
      [] status = "done" -> 4
      [] status = "error" -> 5

\* a step of status along pending -> transcribing -> improving -> streaming ->
\* done, or to error; none out of done or error
Forward(a, b) ==
    \/ a = b
    \/ /\ a \notin {"done", "error"}
       /\ (b = "error" \/ Rank(b) > Rank(a))

\* C1: the status of a job only moves forward along pending -> transcribing ->
\* improving -> streaming -> done, or to error, and never leaves done or error.
C1_StatusMonotonic ==
    [][\A id \in (DOMAIN jobs) \cap (DOMAIN jobs') :
          Forward(jobs[id]["status"], jobs'[id]["status"])]_vars

\* C2: in the events of one run a done or error event is the last event, so
\* there is at most one and nothing follows it.
C2_OneTerminal ==
    \A r \in 1..Len(runs) :
        \A i \in 1..Len(runs[r].events) :
            Terminal(runs[r].events[i]) => i = Len(runs[r].events)

\* a run that has emitted meta, a chunk and its terminal event
C2_Witness ==
    \E r \in 1..Len(runs) :
        LET ev == runs[r].events
        IN  /\ Len(ev) >= 3
            /\ ev[2].type = "chunk"
            /\ Terminal(ev[Len(ev)])
            /\ runs[r].pc = "ended"

\* the deltas of the chunk events, in the order of the events
RECURSIVE ChunkDeltas(_)
ChunkDeltas(ev) ==
    IF ev = <<>> THEN <<>>
    ELSE IF Head(ev).type = "chunk" THEN <<Head(ev).delta>> \o ChunkDeltas(Tail(ev))
    ELSE ChunkDeltas(Tail(ev))

HasTruncatedChunk(ev) == \E i \in 1..Len(ev) : ev[i].type = "chunk" /\ ev[i].truncated

C4_Truncation ==
    /\ [](\A r \in 1..Len(runs) :
            LET ev == runs[r].events
            IN  \A i \in 1..Len(ev) :
                  ev[i].type = "chunk" =>
                    IF ev[i].truncated
                    THEN /\ WordCount(ev[i].full) = MAX_TRANSCRIPT_WORDS
                         /\ ev[i].delta = NoneText
                         /\ \A k \in (i + 1)..Len(ev) : ev[k].type # "chunk"
                         /\ runs[r].transcript_acc = <<ev[i].full>>
                    ELSE /\ WordCount(ev[i].full) <= MAX_TRANSCRIPT_WORDS
                         /\ ev[i].full = Flatten(ChunkDeltas(SubSeq(ev, 1, i))))
    /\ [][\A r \in 1..Len(runs) :
            runs[r].pc # "trunc" /\ runs'[r].pc = "trunc" =>
              LET id == runs[r].job
                  ev == runs'[r].events
              IN  /\ id \in DOMAIN jobs'
                  /\ WordCount(jobs'[id]["transcript"]) = MAX_TRANSCRIPT_WORDS
                  /\ jobs'[id]["transcript"] = ev[Len(ev)].full
                  /\ Get(jobs'[id], "truncated", FALSE)
                  /\ ev[Len(ev)].type = "chunk" /\ ev[Len(ev)].truncated]_vars

\* a run whose second delta took the text over the cap, finished with done
C4_Witness ==
    \E r \in 1..Len(runs) :
        LET ev == runs[r].events
        IN  /\ runs[r].pc = "ended"
            /\ Len(ev) = 4
            /\ ev[2].type = "chunk" /\ ~ev[2].truncated
            /\ ev[3].type = "chunk" /\ ev[3].truncated
            /\ ev[4].type = "done" /\ ev[4].truncated
            /\ WordCount(ev[4].full) = MAX_TRANSCRIPT_WORDS

\* C5: the transcript of a job, in the store and in its snapshot, never has
\* more words than the cap.
C5_WordCap ==
    /\ \A id \in DOMAIN jobs : WordCount(jobs[id]["transcript"]) <= MAX_TRANSCRIPT_WORDS
    /\ \A id \in DOMAIN disk : WordCount(disk[id]["transcript"]) <= MAX_TRANSCRIPT_WORDS

\* a truncated job at the cap
C5_Witness ==
    \E id \in DOMAIN jobs :
        /\ Get(jobs[id], "truncated", FALSE)
        /\ WordCount(jobs[id]["transcript"]) = MAX_TRANSCRIPT_WORDS
        /\ jobs[id]["status"] = "done"

\* C6: the transcript never gets shorter while truncated is false and never
\* changes once truncated is true.
C6_TranscriptFrozen ==
    [][\A id \in (DOMAIN jobs) \cap (DOMAIN jobs') :
          LET before == Get(jobs[id], "truncated", FALSE)
              after == Get(jobs'[id], "truncated", FALSE)
          IN  /\ before => jobs'[id]["transcript"] = jobs[id]["transcript"]
              /\ ~before /\ ~after =>
                    Len(jobs'[id]["transcript"]) >= Len(jobs[id]["transcript"])]_vars

\* C7: the synthesis capability is called at most once per job, and the audio
\* a job holds is the audio get_audio served for it before.
C7_AudioOnce ==
    \A id \in JobIds :
        /\ tts_calls[id] <= 1
        /\ id \in DOMAIN jobs /\ "audio_wav" \in DOMAIN jobs[id] /\ served[id] # {}
              => jobs[id]["audio_wav"] \in served[id]

\* the outcomes of a synthesis call that fails
FailingTts == {out \in TtsOutcomes : ~TtsResult(out).ok}

\* C8: with a failing synthesis capability, get_audio on a done job that
\* holds no synthesized audio answers 200 with a WAV of the fallback encoder
\* that has samples, and the job holds that payload afterwards.
C8_Fallback ==
    \A id \in (DOMAIN jobs) \cup (DOMAIN disk) :
        LET j == Loaded(jobs, disk, id)
        IN  /\ Get(j, "status", None) = "done"
            /\ ("audio_wav" \in DOMAIN j => Get(j, "audio_source", None) = "placeholder_fallback")
            => \A out \in FailingTts : \A vs \in VoicesFor(j) :
                 LET r == GetAudio(jobs, disk, id, out, vs)
                 IN  /\ r.code = 200
                     /\ r.content.fmt = "wav" /\ r.content.rate = 16000
                     /\ Samples(r.content.tones) > 0
                     /\ ByteLen(r.content) > 44
                     /\ r.media_type = "audio/wav"
                     /\ r.jobs[id]["audio_wav"] = r.content
                     /\ r.jobs[id]["audio_source"] = "placeholder_fallback"

\* a done job holding fallback audio after a synthesis call
C8_Witness ==
    \E id \in DOMAIN jobs :
        /\ jobs[id]["status"] = "done"
        /\ Get(jobs[id], "audio_source", None) = "placeholder_fallback"
        /\ tts_calls[id] >= 1
        /\ jobs[id]["audio_wav"] \in served[id]

\* C9: get_audio on a job in the store whose status is not done answers 400,
\* calls neither the synthesis capability nor the fallback encoder, and
\* leaves the store as it is.
C9_NotReady ==
    \A id \in DOMAIN jobs :
        jobs[id]["status"] # "done" =>
          \A out \in TtsOutcomes : \A vs \in VoicesFor(jobs[id]) :
            LET r == GetAudio(jobs, disk, id, out, vs)
            IN  /\ r.code = 400
                /\ ~r.called /\ ~r.fallback
                /\ r.jobs = jobs

\* a job that is streaming, and one back in improving with audio held
C9_Witness ==
    \E id \in DOMAIN jobs :
        /\ jobs[id]["status"] = "improving"
        /\ "audio_wav" \in DOMAIN jobs[id]
        /\ \A out \in TtsOutcomes : \A vs \in VoicesFor(jobs[id]) :
             GetAudio(jobs, disk, id, out, vs).code = 400

\* C10: the voice names of a job stay the ones drawn at creation, in the
\* store, in the snapshot and in every read, and the voices passed to the
\* synthesis capability are those names.
C10_VoiceStability ==
    \A id \in DOMAIN drawn :
        /\ id \in DOMAIN jobs =>
              /\ FullBody(jobs[id]).voice_names = drawn[id]
              /\ SummaryBody(jobs[id]).voice_names = drawn[id]
        /\ id \in DOMAIN disk => FullBody(disk[id]).voice_names = drawn[id]
        /\ tts_calls[id] > 0 =>
              /\ Len(tts_voices[id]) <= Len(drawn[id])
              /\ \A i \in 1..Len(tts_voices[id]) : tts_voices[id][i] = drawn[id][i]

\* the four fields of get full record the round trip is about
RoundTripFields(j) ==
    LET b == FullBody(j)
    IN  <<b.title, b.transcript, b.category, b.voice_names>>

\* the successful save of the step, if the step is one (only it reads the clock)
SavedNow(id) ==
    /\ clock' # clock
    /\ id \in DOMAIN jobs'
    /\ Get(jobs'[id], "saved_at", 0) = clock'

UpstreamFailures == {"improve failed", "stream failed", "title failed"}

\* C12: a run in which the improvement call, the streaming call or the title
\* call failed has set the status to error in that step, has the error event
\* with the message of that failure as its last event, and takes no further
\* step.
C12_UpstreamFailure ==
    /\ [](\A r \in 1..Len(runs) :
            runs[r].caught \in UpstreamFailures =>
              LET ev == runs[r].events
              IN  /\ ~Active(runs[r])
                  /\ ev # <<>>
                  /\ ev[Len(ev)] = ErrorEvent(runs[r].caught))
    /\ [][\A r \in 1..Len(runs) :
            /\ runs[r].caught = None /\ runs'[r].caught \in UpstreamFailures
                 => /\ runs[r].job \in DOMAIN jobs'
                    /\ jobs'[runs[r].job]["status"] = "error"
            /\ runs[r].caught # None => runs'[r] = runs[r]]_vars

\* the record j with its status left out
WithoutStatus(j) == [k \in (DOMAIN j) \ {"status"} |-> j[k]]

\* C13: the step in which a run catches an exception changes nothing in the
\* store but the status of its job, which becomes error: the record stays,
\* with its transcript, truncated, title, saved and audio as the last write
\* before the failure left them, and the snapshots stay as they are.  (Such a
\* step first writes status streaming when it is the one that opens the
\* streaming call.)
C13_FailureKeepsRecord ==
    [][\A r \in 1..Len(runs) :
          runs[r].caught = None /\ runs'[r].caught # None =>
            LET id == runs[r].job
            IN  /\ disk' = disk
                /\ \A x \in JobIds \ {id} : x \in DOMAIN jobs => x \in DOMAIN jobs' /\ jobs'[x] = jobs[x]
                /\ DOMAIN jobs' = DOMAIN jobs
                /\ id \in DOMAIN jobs =>
                      /\ jobs'[id]["status"] = "error"
                      /\ WithoutStatus(jobs'[id]) = WithoutStatus(jobs[id])
                      /\ FullBody(jobs'[id]).transcript = FullBody(jobs[id]).transcript]_vars

\* a job in error after a failed run, holding the run's partial transcript,
\* with audio cached and saved before that run
C13_Witness ==
    \E r \in 1..Len(runs) :
        LET id == runs[r].job
        IN  /\ runs[r].caught \in UpstreamFailures
            /\ id \in DOMAIN jobs
            /\ jobs[id]["status"] = "error"
            /\ jobs[id]["transcript"] # <<>>
            /\ "audio_wav" \in DOMAIN jobs[id]
            /\ Get(jobs[id], "saved", FALSE)
            /\ r = Len(runs)

\* empty, or whitespace only
Blank(s) == \A i \in 1..Len(s) : IsSpace(s[i])

\* the requests the create operation is to refuse
MustRefuse(req) ==
    \/ /\ req.prompt_mode = "text"
       /\ Blank(req.text)
       /\ ~(req.category = "localisation" /\ ~Blank(req.geo_location))
    \/ /\ req.prompt_mode = "audio"
       /\ ~req.audio_file.given

\* C14: create refuses exactly the requests with a blank text in text mode
\* (unless the category is localisation and a location is given) or without
\* a file in audio mode; a create that is not refused adds one record under
\* a fresh id, pending, with an empty transcript and no title, and changes
\* no other record, no snapshot and no run.
C14_CreateValidation ==
    /\ [](\A req \in env.requests : InvalidRequest(req) <=> MustRefuse(req))
    /\ [][next_id' # next_id =>
            /\ next_id' = next_id + 1
            /\ next_id \notin DOMAIN jobs
            /\ DOMAIN jobs' = (DOMAIN jobs) \cup {next_id}
            /\ \A x \in DOMAIN jobs : jobs'[x] = jobs[x]
            /\ jobs'[next_id]["status"] = "pending"
            /\ jobs'[next_id]["transcript"] = <<>>
            /\ jobs'[next_id]["title"] = NoneText
            /\ \E req \in env.requests :
                 /\ ~MustRefuse(req)
                 /\ WithoutStatus(jobs'[next_id])
                      = WithoutStatus(Put(NewJob(req), "voice_names", drawn'[next_id]))
            /\ disk' = disk /\ runs' = runs]_vars

\* a localisation job created from a blank text next to an earlier job
C14_Witness ==
    /\ DOMAIN jobs = {1, 2}
    /\ jobs[2]["status"] = "pending"
    /\ jobs[2]["category"] = "localisation"
    /\ jobs[2]["raw_input"] = SeedText(<<"history">>, <<"Kyoto">>)
    /\ jobs[2]["speakers"] = 1
    /\ Get(jobs[1], "audio_error", None) # None

\* the run has written to its job's record and its generator is not finished
Writing(run) == run.pc \in {"meta", "chunk", "trunc"}

\* C15: no two runs that are both in progress have the same job id.
C15_OneRunPerJob ==
    \A r1, r2 \in 1..Len(runs) :
        r1 # r2 /\ Writing(runs[r1]) /\ Writing(runs[r2]) => runs[r1].job # runs[r2].job

\* the run emits its done event in the step
EmitsDone(r) ==
    /\ r <= Len(runs)
    /\ Len(runs'[r].events) = Len(runs[r].events) + 1
    /\ runs'[r].events[Len(runs'[r].events)].type = "done"

\* C16: in the state in which a run has just emitted done, the job's status
\* is done, its title is the title of the event, and the snapshot of the job
\* exists and records status done, that title and the transcript and
\* truncated flag of the event.
C16_DoneOrder ==
    [][\A r \in 1..Len(runs') :
          EmitsDone(r) =>
            LET id == runs[r].job
                e == runs'[r].events[Len(runs'[r].events)]
            IN  /\ id \in DOMAIN jobs'
                /\ StatusBody(jobs'[id]).status = "done"
                /\ StatusBody(jobs'[id]).title = e.title
                /\ id \in DOMAIN disk'
                /\ disk'[id]["status"] = "done"
                /\ disk'[id]["title"] = e.title
                /\ disk'[id]["transcript"] = e.full
                /\ Get(disk'[id], "truncated", FALSE) = e.truncated]_vars

\* a run that ended with done while another run on the job was in progress
C16_Witness ==
    \E r1, r2 \in 1..Len(runs) :
        LET ev == runs[r1].events
        IN  /\ r1 # r2
            /\ runs[r1].job = runs[r2].job
            /\ Writing(runs[r2])
            /\ runs[r1].pc = "ended"
            /\ ev[Len(ev)].type = "done"
            /\ ev[Len(ev)].full # <<>>
            /\ runs[r1].job \in DOMAIN disk
            /\ disk[runs[r1].job]["title"] = ev[Len(ev)].title

\* C17: for an id that has a snapshot and no record in the store (the store
\* was discarded), each of get status, get full record and get audio finds
\* the job: it does not answer 404, and the record is in the store afterwards.
C17_LazyReload ==
    \A id \in (DOMAIN disk) \ (DOMAIN jobs) :
        /\ GetStatus(jobs, disk, id).code # 404
        /\ id \in DOMAIN GetStatus(jobs, disk, id).jobs
        /\ GetFull(jobs, disk, id).code # 404
        /\ id \in DOMAIN GetFull(jobs, disk, id).jobs
        /\ \A out \in TtsOutcomes : \A vs \in VoicesFor(disk[id]) :
             /\ GetAudio(jobs, disk, id, out, vs).code # 404
             /\ id \in DOMAIN GetAudio(jobs, disk, id, out, vs).jobs

\* the categories a save request is tried with
TriedCategories == SaveCategories \cup {"generated", "localisation"}

\* C18: save on a job of the store whose status is not done, or with a
\* category that is not one of generated, localisation, localization, is
\* refused, leaves the store and the snapshots as they are and does not
\* invoke the synthesis capability.
C18_SaveRefused ==
    \A id \in DOMAIN jobs : \A category \in TriedCategories :
        \/ jobs[id]["status"] # "done"
        \/ category \notin {"generated", "localisation", "localization"}
        => \A out \in TtsOutcomes :
             LET r == SaveJob(jobs, disk, id, category, out, clock + 1, "written")
             IN  /\ r.code = 400
                 /\ r.jobs = jobs
                 /\ r.disk = disk
                 /\ ~r.called

\* a job saved earlier and streaming again, on which save is refused
C18_Witness ==
    \E id \in DOMAIN jobs :
        /\ jobs[id]["status"] = "streaming"
        /\ Get(jobs[id], "saved", FALSE)
        /\ id \in DOMAIN disk
        /\ \A out \in TtsOutcomes :
             SaveJob(jobs, disk, id, "generated", out, clock + 1, "written").code = 400

\* the category a valid requested category stands for
Normalised(category) ==
    IF category \in {"localisation", "localization"} THEN "localisation" ELSE "generated"

WithoutSaveKeys(j) == [k \in (DOMAIN j) \ {"saved", "category", "saved_at"} |-> j[k]]

C21_DeleteFrame ==
    /\ [][\A id \in DOMAIN jobs :
            id \notin DOMAIN jobs' =>
              /\ jobs' = Del(jobs, id)
              /\ disk' = disk]_vars
    /\ [](\A id \in DOMAIN jobs :
            jobs[id]["status"] = "done" =>
              LET r == GetFull(Del(jobs, id), disk, id)
              IN  /\ r.code = 200
                  /\ r.body.title = FullBody(jobs[id]).title
                  /\ r.body.transcript = FullBody(jobs[id]).transcript)

\* C22: the speaker count stored on a job, in the store and in its snapshot,
\* is at least 1.
C22_SpeakersAtLeastOne ==
    /\ \A id \in DOMAIN jobs : jobs[id]["speakers"] >= 1
    /\ \A id \in DOMAIN disk : disk[id]["speakers"] >= 1

\* the most speakers the synthesis stage configures
MaxSynthSpeakers == 2

\* C23: the voice names of a job, in the store and in its snapshot, are as
\* many as its speaker count capped at 2, and are the list drawn at creation.
C23_VoiceNamesLength ==
    /\ \A id \in DOMAIN jobs :
         LET n == jobs[id]["speakers"]
         IN  /\ Len(jobs[id]["voice_names"]) = IF n > MaxSynthSpeakers THEN MaxSynthSpeakers ELSE n
             /\ jobs[id]["voice_names"] = drawn[id]
    /\ \A id \in DOMAIN disk :
         LET n == disk[id]["speakers"]
         IN  /\ Len(disk[id]["voice_names"]) = IF n > MaxSynthSpeakers THEN MaxSynthSpeakers ELSE n
             /\ disk[id]["voice_names"] = drawn[id]

\* what C24 says of the record j created from the request req
LocalisationRules(req, j) ==
    /\ j["category"] \in {"generated", "localisation"}
    /\ req.category = "localisation" <=> j["category"] = "localisation"
    /\ req.category \notin {"generated", "localisation"} => j["category"] = "generated"
    /\ j["category"] = "localisation" =>
          /\ j["speakers"] = 1
          /\ j["theme"] \in allowed_themes
          /\ req.theme \in allowed_themes => j["theme"] = req.theme
          /\ Strip(Lower(req.theme)) \notin allowed_themes => j["theme"] = <<"culture">>
    /\ j["category"] # "localisation" => "theme" \notin DOMAIN j

\* C24: the record a create request stores has category generated or
\* localisation, localisation only when requested; a localisation record
\* has speakers = 1 whatever was requested and a theme of the allowed set,
\* culture when the requested theme is not in the set.
C24_Localisation ==
    /\ [](\A req \in env.requests : ~InvalidRequest(req) => LocalisationRules(req, NewJob(req)))
    /\ [][next_id' # next_id =>
            /\ Len(jobs'[next_id]["voice_names"]) = jobs'[next_id]["speakers"]
            /\ \A req \in env.requests :
                 /\ ~InvalidRequest(req)
                 /\ WithoutStatus(jobs'[next_id])
                      = WithoutStatus(Put(NewJob(req), "voice_names", drawn'[next_id]))
                 => LocalisationRules(req, jobs'[next_id])]_vars

\* a localisation job created with two speakers and another theme requested
C24_Witness ==
    \E id \in DOMAIN jobs :
        /\ jobs[id]["category"] = "localisation"
        /\ jobs[id]["speakers"] = 1
        /\ jobs[id]["theme"] = <<"culture">>
        /\ jobs[id]["raw_input"] = <<"hi">>
        /\ jobs[id]["status"] = "pending"

\* the snapshot files without the file of id
WithoutFile(d, id) == [x \in (DOMAIN d) \ {id} |-> d[x]]

\* the voice lists a get_audio of id can pass, if it gets to the call
AudioVoices(id) == IF id \in DOMAIN jobs THEN VoicesFor(jobs[id]) ELSE {<<>>}

\* C25: a failure of the snapshot write is swallowed, the operation that
\* wrote (the end of a stream, a save) changes the store, the run and its
\* response as it does when the write succeeds; a snapshot file that cannot
\* be parsed is treated by the readers as no file at all.
C25_PersistenceFailure ==
    /\ \A r \in 1..Len(runs) : \A t \in TitleOutcomes : \A w \in WriteOutcomes :
         runs[r].pc \in {"meta", "chunk", "trunc"} =>
            LET a == Finish(jobs, disk, runs[r], t, w)
                b == Finish(jobs, disk, runs[r], t, "written")
            IN  a.jobs = b.jobs /\ a.run = b.run
    /\ \A id \in JobIds : \A category \in SaveCategories \cup {"generated"} :
         \A out \in TtsOutcomes : \A w \in WriteOutcomes :
            LET a == SaveJob(jobs, disk, id, category, out, clock + 1, w)
                b == SaveJob(jobs, disk, id, category, out, clock + 1, "written")
            IN  a.code = b.code /\ a.jobs = b.jobs /\ a.called = b.called
    /\ \A id \in DOMAIN disk :
         disk[id] = Unparsable =>
            /\ GetFull(jobs, disk, id) = GetFull(jobs, WithoutFile(disk, id), id)
            /\ GetStatus(jobs, disk, id) = GetStatus(jobs, WithoutFile(disk, id), id)
            /\ \A out \in TtsOutcomes : \A vs \in AudioVoices(id) :
                 GetAudio(jobs, disk, id, out, vs)
                   = GetAudio(jobs, WithoutFile(disk, id), id, out, vs)

\* a stream ended with its done event, the snapshot written for the job was
\* torn, and the job is no longer in the store
C25_Witness ==
    \E r \in 1..Len(runs) :
        /\ runs[r].pc = "ended"
        /\ runs[r].events[Len(runs[r].events)].type = "done"
        /\ runs[r].job \notin DOMAIN jobs
        /\ runs[r].job \in DOMAIN disk
        /\ disk[runs[r].job] = Unparsable

TranscriptionFailed == <<"(Audio transcription failed; proceed with generic prompt)">>
TranscriptEmpty == <<"(Audio transcript empty)">>

\* the condition of line 290: the job still awaits its transcription
AwaitsTranscription(j) ==
    /\ Get(j, "raw_input", <<>>) = <<"<audio>">>
    /\ Get(j, "audio_bytes", <<>>) # <<>>
    /\ Get(j, "transcribed_audio", <<>>) = <<>>

\* C26: for an audio job awaiting its transcription, a stream request never
\* turns the status to error by itself; it starts a run whose raw input is the
\* transcription when there is one, the fixed fallback sentence when the
\* capability failed and the literal placeholder when the result was empty,
\* with the status at transcribing and the run about to improve the prompt.
C26_TranscriptionFallback ==
    [][\A id \in DOMAIN jobs :
         AwaitsTranscription(jobs[id]) /\ id \in DOMAIN jobs' =>
            /\ runs' = runs /\ jobs'[id]["status"] = "error" => jobs[id]["status"] = "error"
            /\ Len(runs') = Len(runs) + 1 /\ runs'[Len(runs')].job = id =>
                 LET run == runs'[Len(runs')]
                     cached == Get(jobs'[id], "transcribed_audio", <<>>)
                 IN  /\ run.pc = "start"
                     /\ run.events = <<>>
                     /\ jobs'[id]["status"] = "transcribing"
                     /\ run.raw_input \in {TranscriptionFailed, TranscriptEmpty, cached}
                     /\ run.raw_input # <<>>
                     /\ cached # <<>> => run.raw_input = cached
                     /\ Get(jobs'[id], "audio_transcription_error", None)
                          # Get(jobs[id], "audio_transcription_error", None)
                        => run.raw_input = TranscriptionFailed
                     /\ run.raw_input = TranscriptionFailed
                        => "audio_transcription_error" \in DOMAIN jobs'[id]]_vars

\* one run went on with the fallback sentence and one with the placeholder,
\* both past the improvement of the prompt
C26_Witness ==
    \E r1, r2 \in 1..Len(runs) :
        /\ runs[r1].raw_input = TranscriptionFailed
        /\ runs[r2].raw_input = TranscriptEmpty
        /\ runs[r1].events # <<>> /\ runs[r1].events[1].type = "meta"
        /\ runs[r2].events # <<>> /\ runs[r2].events[1].type = "meta"

\* the step is a stream request that started a run of job id
StartsRun(id) == Len(runs') = Len(runs) + 1 /\ runs'[Len(runs')].job = id

\* C27: once a transcription is cached on a job, a stream request on it does
\* not transcribe: it leaves the record as it is (no status transcribing, the
\* cache untouched) and starts its run from the stored raw input; the cached
\* text of a job in the store never changes.
C27_TranscribeOnce ==
    [][\A id \in (DOMAIN jobs) \cap (DOMAIN jobs') :
         Get(jobs[id], "transcribed_audio", <<>>) # <<>> =>
            /\ jobs'[id]["transcribed_audio"] = jobs[id]["transcribed_audio"]
            /\ StartsRun(id) =>
                 /\ jobs'[id] = jobs[id]
                 /\ runs'[Len(runs')].raw_input = jobs[id]["raw_input"]]_vars

\* two stream requests on a job with audio: the first transcribed and cached
\* the text, the second started without transcribing
C27_Witness ==
    \E r1, r2 \in 1..Len(runs) :
        /\ r1 < r2
        /\ runs[r1].job = runs[r2].job
        /\ runs[r1].job \in DOMAIN jobs
        /\ Get(jobs[runs[r1].job], "audio_bytes", <<>>) # <<>>
        /\ runs[r1].raw_input = Get(jobs[runs[r1].job], "transcribed_audio", <<>>)
        /\ runs[r2].raw_input = jobs[runs[r1].job]["raw_input"]

\* C28: the step in which the consumer of a run disconnects changes no job
\* record, no snapshot and makes no capability call; the run is never
\* resumed afterwards, and while no run of a job is in progress no step
\* changes the transcript written to its record.
C28_Disconnect ==
    /\ [][\A r \in 1..Len(runs) :
            /\ runs[r].pc # "closed" /\ runs'[r].pc = "closed" =>
                 /\ jobs' = jobs /\ disk' = disk
                 /\ tts_calls' = tts_calls
                 /\ runs'[r] = [runs[r] EXCEPT !.pc = "closed"]
            /\ runs[r].pc = "closed" => runs'[r] = runs[r]]_vars
    /\ [][\A id \in (DOMAIN jobs) \cap (DOMAIN jobs') :
            (\A r \in 1..Len(runs) : runs[r].job = id => ~Active(runs[r]))
            => jobs'[id]["transcript"] = jobs[id]["transcript"]]_vars

\* a run stopped by a disconnect after it wrote a partial transcript, which
\* is still in the record
C28_Witness ==
    \E r \in 1..Len(runs) :
        /\ runs[r].pc = "closed"
        /\ runs[r].events # <<>>
        /\ runs[r].events[Len(runs[r].events)].type = "chunk"
        /\ runs[r].job \in DOMAIN jobs
        /\ jobs[runs[r].job]["status"] = "streaming"
        /\ jobs[runs[r].job]["transcript"] = runs[r].events[Len(runs[r].events)].full
        /\ jobs[runs[r].job]["transcript"] # <<>>
        /\ \A q \in 1..Len(runs) : ~Active(runs[q])

\* the ids of the items of a list, in order
ItemIds(items) == [i \in 1..Len(items) |-> items[i].job_id]

\* C29: list saved returns exactly the saved jobs (of the category when one
\* is given), each once, the most recently saved first; a job that was saved
\* and not unsaved, which is a job whose snapshot says saved, is in the list
\* even when its record is no longer in the store.
C29_ListSaved ==
    \A category \in {None, "generated", "localisation"} :
        LET items == ListSaved(jobs, category)
            ids == ItemIds(items)
        IN  /\ \A i, k \in 1..Len(items) : i < k =>
                  ids[i] # ids[k] /\ items[i].saved_at >= items[k].saved_at
            /\ \A i \in 1..Len(items) :
                  /\ ids[i] \in DOMAIN jobs /\ jobs[ids[i]]["saved"]
                  /\ category # None => items[i].category = category
            /\ \A id \in DOMAIN disk :
                  /\ Get(disk[id], "saved", FALSE)
                  /\ category \in {None, disk[id]["category"]}
                  => \E i \in 1..Len(items) : ids[i] = id

\* C30: a stream request on a job whose transcription is cached starts its
\* run with the cached text as the raw input handed to the improvement of
\* the prompt, never with the "<audio>" token.
C30_CachedRawInput ==
    [][\A id \in (DOMAIN jobs) \cap (DOMAIN jobs') :
         Get(jobs[id], "transcribed_audio", <<>>) # <<>> /\ StartsRun(id) =>
            /\ runs'[Len(runs')].raw_input = jobs[id]["transcribed_audio"]
            /\ runs'[Len(runs')].raw_input # <<"<audio>">>]_vars

\* the lookups of lines 287-288 succeed on the record j
ResolvesRawInput(j) == "use_internet" \in DOMAIN j /\ "raw_input" \in DOMAIN j

\* C31: a stream request on any id of the store, created here or loaded from
\* a snapshot, gets its run: the request does not fail while it resolves the
\* raw input, and every run that has ended without a disconnect, on a record
\* that is in the store, ended with a done or an error event.
C31_StreamAlwaysRuns ==
    /\ \A id \in DOMAIN jobs : ResolvesRawInput(jobs[id])
    /\ \A r \in 1..Len(runs) :
         runs[r].pc = "ended" =>
            /\ runs[r].events # <<>>
            /\ Terminal(runs[r].events[Len(runs[r].events)])

\* the events of the list that are done or error events
TerminalEvents(events) == {i \in 1..Len(events) : Terminal(events[i])}

\* C32: a run that finds its record deleted stops there with exactly one
\* terminal event, an error event, as its last event.
C32_DeleteAborts ==
    \A r \in 1..Len(runs) :
        runs[r].caught = "KeyError" =>
            /\ runs[r].pc = "ended"
            /\ TerminalEvents(runs[r].events) = {Len(runs[r].events)}
            /\ runs[r].events[Len(runs[r].events)].type = "error"

\* the record of the run's job is not the one the run was started on: it is
\* gone, or it is a record loaded from a snapshot (which has no raw input,
\* while the run resolved its raw input from the record it started on)
DeletedSince(run) ==
    run.job \notin DOMAIN jobs \/ ~ResolvesRawInput(jobs[run.job])

\* the run r ends in the step (not by a disconnect)
Ends(r) == Active(runs[r]) /\ ReadToEnd(runs'[r])

\* C33: when a run whose job was deleted during the run ends, there is no
\* record of the job in the store and the run has written no snapshot.
C33_NoRecreate ==
    [][\A r \in 1..Len(runs) :
          DeletedSince(runs[r]) /\ Ends(r) =>
             /\ runs[r].job \notin DOMAIN jobs'
             /\ disk' = disk]_vars

\* the positions of the chunk events in the list
ChunkEvents(events) == {i \in 1..Len(events) : events[i].type = "chunk"}

\* the cumulative text of the last chunk event, the empty text without one
LastFull(events) ==
    IF ChunkEvents(events) = {} THEN <<>>
    ELSE events[CHOOSE i \in ChunkEvents(events) : \A k \in ChunkEvents(events) : k <= i].full

\* C34: a done event carries as full the cumulative text of the last chunk
\* event of its own run (the empty text if there was none), and truncated
\* exactly when a chunk of its own run was cut at the word cap.
C34_DoneMatchesRun ==
    \A r \in 1..Len(runs) : \A i \in 1..Len(runs[r].events) :
        LET events == runs[r].events
        IN  events[i].type = "done" =>
               /\ events[i].full = LastFull(events)
               /\ events[i].truncated <=> \E k \in ChunkEvents(events) : events[k].truncated

\* the title of the record is null
NullTitle(j) == Get(j, "title", NoneText) = NoneText

\* C35: a job with status done has a title, and the title of a record goes
\* from null to a value only in a step that leaves the status at done (a
\* record that enters the store with a title has status done), so a job that
\* never reached done has a null title.
C35_TitleIffDone ==
    /\ [](\A id \in DOMAIN jobs : jobs[id]["status"] = "done" => ~NullTitle(jobs[id]))
    /\ [][\A id \in DOMAIN jobs' :
            /\ ~NullTitle(jobs'[id])
            /\ id \in DOMAIN jobs => NullTitle(jobs[id])
            => jobs'[id]["status"] = "done"]_vars

\* a job that reached done and has its title, and its run before that step
\* is on record with the done event
C35_Witness ==
    \E r \in 1..Len(runs) :
        /\ runs[r].job \in DOMAIN jobs
        /\ jobs[runs[r].job]["status"] = "done"
        /\ runs[r].events # <<>>
        /\ runs[r].events[Len(runs[r].events)].type = "done"
        /\ jobs[runs[r].job]["title"] = runs[r].events[Len(runs[r].events)].title
        /\ ~NullTitle(jobs[runs[r].job])

\* C36: every job of the store with status done has a snapshot whose title
\* and transcript are those of the record.
C36_DoneHasSnapshot ==
    \A id \in DOMAIN jobs :
        jobs[id]["status"] = "done" =>
            /\ Readable(disk, id)
            /\ disk[id]["title"] = jobs[id]["title"]
            /\ disk[id]["transcript"] = jobs[id]["transcript"]

\* C37: every snapshot records status done; a step that writes the snapshot
\* of a job leaves the job at done in the store; a record that enters the
\* store from a snapshot has status done.
C37_SnapshotsAreDone ==
    /\ [](\A id \in DOMAIN disk : Readable(disk, id) => disk[id]["status"] = "done")
    /\ [][\A id \in DOMAIN disk' :
            id \notin DOMAIN disk \/ disk'[id] # disk[id] =>
               /\ id \in DOMAIN jobs'
               /\ jobs'[id]["status"] = "done"
               /\ Readable(disk', id) => disk'[id]["status"] = "done"]_vars
    /\ [][\A id \in (DOMAIN jobs') \ (DOMAIN jobs) :
            next_id' = next_id => jobs'[id]["status"] = "done"]_vars

\* a record reconstructed from its snapshot, after a save rewrote the
\* snapshot written at done
C37_Witness ==
    \E id \in (DOMAIN jobs) \cap (DOMAIN disk) :
        /\ ~ResolvesRawInput(jobs[id])
        /\ jobs[id]["status"] = "done"
        /\ Get(disk[id], "saved", FALSE)
        /\ disk[id]["status"] = "done"

\* the audio the fallback encoder renders for the transcript of the record j
FallbackAudioOf(j) ==
    _generate_placeholder_audio(IF Get(j, "transcript", <<>>) # <<>> THEN j["transcript"]
                                ELSE <<"(no transcript)">>,
                                Get(j, "voices", <<>>))

\* C38: the cached audio of a done job was made from the job's current
\* transcript. The audio of the fallback encoder is determined by the text it
\* was given, so for it the statement is: the cached audio is the rendering of
\* the current transcript.
C38_AudioMatchesTranscript ==
    \A id \in DOMAIN jobs :
        /\ jobs[id]["status"] = "done"
        /\ "audio_wav" \in DOMAIN jobs[id]
        /\ Get(jobs[id], "audio_source", None) = "placeholder_fallback"
        => jobs[id]["audio_wav"] = FallbackAudioOf(jobs[id])

\* the latest stream request on job id is a run that a disconnect stopped
\* after its first event
LastRunClosed(id) ==
    \E r \in 1..Len(runs) :
        /\ runs[r].job = id
        /\ runs[r].pc = "closed"
        /\ runs[r].events # <<>>
        /\ \A q \in 1..Len(runs) : runs[q].job = id => q <= r

\* C39: once the run of the latest stream request on a job was stopped by a
\* disconnect, a status of improving or streaming does not change in any
\* step other than a new stream request on the job.
C39_StatusKept ==
    [][\A id \in (DOMAIN jobs) \cap (DOMAIN jobs') :
          /\ LastRunClosed(id)
          /\ jobs[id]["status"] \in {"improving", "streaming"}
          /\ Len(runs') = Len(runs)
          => jobs'[id]["status"] = jobs[id]["status"]]_vars

\* the fields a save may change
SaveFields == {"saved", "saved_at", "category", "audio_wav", "audio_mime", "audio_source"}

\* the fields C40 lists as unchanged
KeptFields ==
    {"status", "title", "transcript", "truncated", "speakers", "voices", "voice_names",
     "theme", "geo_location", "language"}

\* the record b is the record a but for the fields a save may change
OnlySaveFields(a, b) ==
    \A k \in ((DOMAIN a) \cup (DOMAIN b)) \ SaveFields :
        k \in DOMAIN a /\ k \in DOMAIN b /\ a[k] = b[k]

\* js2, d2 are the store and the snapshots js, d after a successful save of id
SaveFrame(js, d, js2, d2, id) ==
    /\ DOMAIN js2 = DOMAIN js
    /\ \A x \in (DOMAIN js) \ {id} : js2[x] = js[x]
    /\ OnlySaveFields(js[id], js2[id])
    /\ \A k \in KeptFields : k \in DOMAIN js[id] <=> k \in DOMAIN js2[id]
    /\ js2[id]["saved"]
    /\ \A x \in ((DOMAIN d) \cup (DOMAIN d2)) \ {id} :
          x \in DOMAIN d /\ x \in DOMAIN d2 /\ d2[x] = d[x]
    /\ d2 # d /\ Readable(d2, id) =>
          \A k \in KeptFields \cap (DOMAIN js[id]) : d2[id][k] = js[id][k]

\* C40: a successful save changes, in the record of the job, only saved,
\* saved_at, category and the cached audio fields; the snapshot it writes
\* carries the other fields as they were; no other record and no other
\* snapshot is changed.
C40_SaveFrame ==
    /\ [](\A id \in DOMAIN jobs : \A category \in SaveCategories \cup {"generated", "localisation"} :
            \A out \in TtsOutcomes : \A w \in env.writes :
               LET r == SaveJob(jobs, disk, id, category, out, clock + 1, w)
               IN  r.code = 200 => SaveFrame(jobs, disk, r.jobs, r.disk, id))
    /\ [][clock' # clock =>
            /\ runs' = runs
            /\ \E id \in DOMAIN jobs :
                 /\ Get(jobs'[id], "saved_at", 0) = clock'
                 /\ SaveFrame(jobs, disk, jobs', disk', id)]_vars

\* a saved job with its audio and its snapshot next to a second job that
\* was created and never touched
C40_Witness ==
    \E id, other \in DOMAIN jobs :
        /\ id # other
        /\ Get(jobs[id], "saved", FALSE)
        /\ jobs[id]["saved_at"] = clock
        /\ "audio_wav" \in DOMAIN jobs[id]
        /\ Readable(disk, id)
        /\ Get(disk[id], "saved", FALSE)
        /\ jobs[other]["status"] = "pending"

====
